---- MODULE Spec2Model ----
(***************************************************************************)
(* Authentication and session lifecycle of ai-gallery.                     *)
(*                                                                         *)
(* Client half: src/lib/client-session.ts, the credential cache kept in    *)
(* localStorage plus the module-level mirror and the two single-flight     *)
(* promises.  One browsing context is modelled.  JavaScript runs tasks to  *)
(* completion: a task (a call from the page, a network response) runs its  *)
(* synchronous part, and then every pending promise continuation runs      *)
(* before the next task starts.  Continuations are modelled as separate    *)
(* steps, and tasks are disabled while a continuation is pending           *)
(* (Draining).                                                             *)
(*                                                                         *)
(* Server half: app/api/auth/github/callback/route.ts, the OAuth callback  *)
(* with the users table of the identity store.                             *)
(***************************************************************************)
EXTENDS Integers, Sequences, FiniteSets, TLC

\* ------------------------------------------------------------------ bounds
NumCallers == 2      \* calls of the client API in one run
MaxTicks == 3        \* clock steps of the client
MaxIssued == 2       \* credential pairs the API server issues
MaxPosts == 2        \* POST /auth/token requests in one run
NumReqs == 2         \* OAuth callback requests the server handles
MaxClock == 2        \* instants the server's clock shows
MaxSeconds == 3      \* seconds the clock of the token service runs
MaxInbox == 1        \* window messages waiting at the opener

\* --------------------------------------------------------------- constants
TOKEN_SKEW_MS == 5000

Callers == 1..NumCallers
Users == {"u1", "u2"}
MaxNow == MaxTicks * TOKEN_SKEW_MS

\* JavaScript null / undefined / an absent localStorage item
Null == [null |-> TRUE]
\* Number(undefined), Number("x"): not a number
NaN == -1

\* Lifetimes the API server may give a credential, relative to the clock.
\* An access credential of 2 skews is good for one clock step; a refresh
\* credential outlives it by nothing or by one step.
AccessTtls == {2 * TOKEN_SKEW_MS}
RefreshTtls == {3 * TOKEN_SKEW_MS}
\* A lifetime that outlasts the whole run
LongTtl == (MaxTicks + 3) * TOKEN_SKEW_MS

VARIABLES
    now,             \* Date.now()
    tokenStore,      \* localStorage[TOKEN_STORAGE_KEY]
    userStore,       \* localStorage[USER_STORAGE_KEY]
    userCache,       \* let userCache
    refreshPromise,  \* let refreshPromise, with the position of its async body
    profilePromise,  \* let profilePromise, with the position of its async body
    callers,         \* the callers of the exported functions
    issued,          \* credential pairs issued so far by the API server
    postBy           \* history: who started each POST /auth/token

VARIABLES
    users,           \* the users table of the identity store
    reqs,            \* the callback requests, each with the position of GET
    clock            \* the latest instant the server's clock has shown

VARIABLES
    encoded,         \* the last call of encodeStateCookie and its result
    decoded          \* the last call of decodeStateCookie and its result

VARIABLES
    auth,            \* the AuthStatus component of the opener window
    page,            \* the GeneratePage component of the opener window
    popup,           \* the popup window and the callback page in it
    inbox,           \* message events queued for the opener window
    lastMessage      \* history: the message event the opener ignored last

VARIABLES
    wall,            \* Date.now() of the token service, in milliseconds
    jwt,             \* the token signToken returned last
    verified         \* the last call of verifyToken and how it ended

clientVars == <<now, tokenStore, userStore, userCache, refreshPromise,
                profilePromise, callers, issued, postBy>>
callbackVars == <<users, reqs, clock>>
tokenVars == <<wall, jwt, verified>>
codecVars == <<encoded, decoded>>
serverVars == <<callbackVars, tokenVars, codecVars>>
openerVars == <<auth, page, popup, inbox, lastMessage>>
vars == <<clientVars, serverVars, openerVars>>

\* ------------------------------------------------------------ data shapes
\* An absent string: a null error, an absent query parameter or JSON field
Missing == "<missing>"

\* AuthStatus and GeneratePage once their first session check has ended
\* with nobody signed in, and no popup window
Mounted ==
    [user |-> [null |-> TRUE], error |-> Missing, loginPending |-> FALSE,
     loading |-> FALSE, popupRef |-> FALSE, left |-> FALSE]
PageMounted ==
    [sessionUser |-> [null |-> TRUE], sessionError |-> Missing,
     inlineLoginPending |-> FALSE, sessionLoading |-> FALSE,
     inlinePopupRef |-> FALSE]
NoPopup ==
    [win |-> "none", pc |-> "idle", closedBy |-> "nobody",
     cache |-> [null |-> TRUE], received |-> [null |-> TRUE], posted |-> "none",
     attempt |-> 0, sub |-> Missing, forced |-> 0]

Token(u, n, k) == [sub |-> u, gen |-> n, kind |-> k]
SessionUser(u) == [id |-> u]

\* The TokenPayloadDto the API server returns for subject u as its n-th pair
TokenPayloadDto(u, n, accessExp, refreshExp, user) ==
    [accessToken |-> Token(u, n, "access"),
     accessTokenExpireIn |-> accessExp,
     refreshToken |-> Token(u, n, "refresh"),
     refreshTokenExpireIn |-> refreshExp,
     user |-> user]

\* A response body without credentials: undefined reads as an absent
\* string, Number(undefined) is NaN
MalformedPayload(user) ==
    [accessToken |-> Null,
     accessTokenExpireIn |-> NaN,
     refreshToken |-> Null,
     refreshTokenExpireIn |-> NaN,
     user |-> user]

\* refreshPromise === null / profilePromise === null
NoRefresh == [st |-> "none", sent |-> Null, answer |-> "none", value |-> Null]
NoProfile == [st |-> "none", token |-> Null, got |-> Null, forced |-> 0, reqs |-> 0]
IdleCaller == [pc |-> "idle", op |-> "none", result |-> Null, sent |-> Null, reqs |-> 0]

\* The three places a cached session lives in
Mem == [tok |-> tokenStore, usr |-> userStore, cache |-> userCache]

\* ------------------------------------------------------- client-session.ts
\* (mutant) the skew is not subtracted
isExpired_noSkew(timestamp, skew) ==
    IF timestamp = NaN \/ timestamp = 0 THEN TRUE
    ELSE now >= timestamp

isExpired(timestamp, skew) ==
    IF timestamp = NaN \/ timestamp = 0 THEN TRUE
    ELSE now >= timestamp - skew

readStoredTokens(raw) ==
    IF raw = Null THEN Null
    ELSE IF raw.accessToken = Null \/ raw.refreshToken = Null THEN Null
    ELSE raw

writeStoredTokens(m, payload) == [m EXCEPT !.tok = payload]

\* (mutant) the mirror is assigned only when there is a user to keep
saveSessionUser_keepsMirror(m, user) ==
    IF user = Null THEN [m EXCEPT !.usr = Null]
    ELSE [m EXCEPT !.cache = user, !.usr = user]

saveSessionUser(m, user) ==
    [m EXCEPT !.cache = user, !.usr = user]

\* (mutant) only the access half of the stored pair is patched
persistTokenPayload_patchesAccess(m, payload) ==
    saveSessionUser(
        IF m.tok = Null
        THEN writeStoredTokens(m,
                [accessToken |-> payload.accessToken,
                 refreshToken |-> payload.refreshToken,
                 accessTokenExpireIn |-> payload.accessTokenExpireIn,
                 refreshTokenExpireIn |-> payload.refreshTokenExpireIn])
        ELSE writeStoredTokens(m,
                [m.tok EXCEPT !.accessToken = payload.accessToken,
                              !.accessTokenExpireIn = payload.accessTokenExpireIn]),
        payload.user)

persistTokenPayload(m, payload) ==
    LET normalized == [accessToken |-> payload.accessToken,
                       refreshToken |-> payload.refreshToken,
                       accessTokenExpireIn |-> payload.accessTokenExpireIn,
                       refreshTokenExpireIn |-> payload.refreshTokenExpireIn]
    IN saveSessionUser(writeStoredTokens(m, normalized), payload.user)

\* (mutant) the user item is left in storage
clearStoredSession_keepsUserItem(m) ==
    [m EXCEPT !.cache = Null, !.tok = Null]

\* (mutant) the token item is left in storage
clearStoredSession_keepsTokenItem(m) ==
    [m EXCEPT !.cache = Null, !.usr = Null]

clearStoredSession(m) ==
    [m EXCEPT !.cache = Null, !.tok = Null, !.usr = Null]

getStoredSessionUser(m) ==
    IF m.cache # Null THEN m.cache ELSE m.usr

\* (mutant) the expiry of the refresh credential is not looked at
getValidRefreshToken_unchecked(raw) ==
    LET stored == readStoredTokens(raw)
    IN IF stored = Null THEN Null ELSE stored.refreshToken

getValidRefreshToken(raw) ==
    LET stored == readStoredTokens(raw)
    IN IF stored = Null THEN Null
       ELSE IF isExpired(stored.refreshTokenExpireIn, 0) THEN Null
       ELSE stored.refreshToken

\* ensureAccessToken, first part: the cached access credential if still good
cachedAccessToken(raw) ==
    LET stored == readStoredTokens(raw)
    IN IF stored # Null /\ ~isExpired(stored.accessTokenExpireIn, TOKEN_SKEW_MS)
       THEN stored.accessToken
       ELSE Null

\* (mutant) the in-flight marker is never looked at
refreshInFlight_ignored(promise) == promise.st = "never"

\* refreshTokens, line 217: is there a refresh in flight to share
refreshInFlight(promise) == promise.st # "none"

\* (mutant) the marker of the profile fetch is never looked at
profileInFlight_ignored(promise) == promise.st = "never"

\* fetchCurrentUser, line 255: is there a profile fetch in flight to share
profileInFlight(promise) == promise.st # "none"

\* (mutant) every unauthorized answer is followed by a refresh and a retry
mayRetry_always(p) == TRUE

\* fetchCurrentUser, lines 267-283: only the first requestProfile of an
\* invocation is followed by a forced refresh and a second request
mayRetry(p) == p.forced = 0

\* refreshed?.accessToken ?? null
accessTokenOf(value) == IF value = Null THEN Null ELSE value.accessToken

\* ------------------------------------------------------- client: helpers
SetMem(m) ==
    /\ tokenStore' = m.tok
    /\ userStore' = m.usr
    /\ userCache' = m.cache

\* A promise continuation is pending: no new task starts before it has run
Draining ==
    \/ refreshPromise.st \in {"thrown", "returned"}
    \/ profilePromise.st = "resume"

\* Callers are numbered in the order in which they call
MayCall(c) ==
    /\ callers[c].pc = "idle"
    /\ \A d \in DOMAIN callers : d < c => callers[d].pc # "idle"

Waiting(c, op, sent) ==
    [pc |-> "waitRefresh", op |-> op, result |-> Null, sent |-> sent, reqs |-> 0]
Done(op, result, sent) ==
    [pc |-> "done", op |-> op, result |-> result, sent |-> sent, reqs |-> 0]

\* What a call of refreshTokens() does in the current state (lines 217-223)
refreshCall ==
    IF refreshInFlight(refreshPromise) THEN "join"
    ELSE IF getValidRefreshToken(tokenStore) = Null THEN "null"
    ELSE "start"

\* The profile operation ends: .finally resets the marker (lines 297-299) and
\* every caller sharing the promise gets the result
FinishProfile(result, cs) ==
    /\ profilePromise' = NoProfile
    /\ callers' = [c \in DOMAIN cs |->
                     IF cs[c].pc = "waitProfile"
                     THEN [Done("fetchCurrentUser", result, Null)
                             EXCEPT !.reqs = profilePromise.reqs]
                     ELSE cs[c]]

\* --------------------------------------------------- client: API calls
\* refreshTokens() called by caller c for operation op (lines 216-252, up to
\* the first await)
RefreshTokensFrom(c, op) ==
    CASE refreshCall = "join" ->
           /\ callers' = [callers EXCEPT ![c] = Waiting(c, op, refreshPromise.sent)]
           /\ UNCHANGED <<refreshPromise, postBy>>
      [] refreshCall = "null" ->
           /\ callers' = [callers EXCEPT ![c] = Done(op, Null, Null)]
           /\ UNCHANGED <<refreshPromise, postBy>>
      [] refreshCall = "start" ->
           /\ Len(postBy) < MaxPosts
           /\ refreshPromise' = [st |-> "fetch",
                                 sent |-> getValidRefreshToken(tokenStore),
                                 answer |-> "none", value |-> Null]
           /\ postBy' = Append(postBy, op)
           /\ callers' = [callers EXCEPT
                            ![c] = Waiting(c, op, getValidRefreshToken(tokenStore))]

\* getValidAccessToken() = ensureAccessToken() (lines 139-146, 212-214)
GetValidAccessToken(c) ==
    /\ UNCHANGED <<serverVars, openerVars>>
    /\ ~Draining
    /\ MayCall(c)
    /\ IF cachedAccessToken(tokenStore) # Null
       THEN /\ callers' = [callers EXCEPT ![c] =
                  Done("getValidAccessToken", cachedAccessToken(tokenStore), Null)]
            /\ UNCHANGED <<refreshPromise, postBy>>
       ELSE RefreshTokensFrom(c, "getValidAccessToken")
    /\ UNCHANGED <<now, tokenStore, userStore, userCache, profilePromise, issued>>

\* refreshTokens() called directly
RefreshTokens(c) ==
    /\ UNCHANGED <<serverVars, openerVars>>
    /\ ~Draining
    /\ MayCall(c)
    /\ RefreshTokensFrom(c, "refreshTokens")
    /\ UNCHANGED <<now, tokenStore, userStore, userCache, profilePromise, issued>>

\* --------------------------------------------- client: the refresh body
\* POST /auth/token answers (lines 226-240).  kind: "ok" a readable
\* TokenPayloadDto for the subject of the credential sent, with or without
\* its user; "notok" a non-OK status; "throw" fetch or json() rejects;
\* "malformed" an OK status with a JSON object that has no credentials in
\* it, with or without a user.
RefreshRespond(kind, accessTtl, refreshTtl, withUser) ==
    /\ UNCHANGED <<serverVars, openerVars>>
    /\ ~Draining
    /\ refreshPromise.st = "fetch"
    /\ CASE kind = "ok" ->
              /\ issued < MaxIssued
              /\ LET sub == refreshPromise.sent.sub
                     payload == TokenPayloadDto(sub, issued + 1,
                                    now + accessTtl, now + refreshTtl,
                                    IF withUser THEN SessionUser(sub) ELSE Null)
                 IN /\ SetMem(persistTokenPayload(Mem, payload))
                    /\ refreshPromise' = [refreshPromise EXCEPT
                          !.st = "returned", !.answer = "ok", !.value = payload]
              /\ issued' = issued + 1
         [] kind = "malformed" ->
              /\ LET payload == MalformedPayload(
                        IF withUser THEN SessionUser(refreshPromise.sent.sub)
                        ELSE Null)
                 IN /\ SetMem(persistTokenPayload(Mem, payload))
                    /\ refreshPromise' = [refreshPromise EXCEPT
                          !.st = "returned", !.answer = "malformed",
                          !.value = payload]
              /\ UNCHANGED issued
         [] kind = "notok" ->
              /\ SetMem(clearStoredSession(Mem))
              /\ refreshPromise' = [refreshPromise EXCEPT
                                      !.st = "returned", !.answer = "notok"]
              /\ UNCHANGED issued
         [] kind = "throw" ->
              /\ refreshPromise' = [refreshPromise EXCEPT
                                      !.st = "thrown", !.answer = "throw"]
              /\ UNCHANGED <<tokenStore, userStore, userCache, issued>>
    /\ UNCHANGED <<now, profilePromise, callers, postBy>>

\* .catch (lines 242-246)
RefreshCatch ==
    /\ UNCHANGED <<serverVars, openerVars>>
    /\ refreshPromise.st = "thrown"
    /\ SetMem(clearStoredSession(Mem))
    /\ refreshPromise' = [refreshPromise EXCEPT !.st = "returned"]
    /\ UNCHANGED <<now, profilePromise, callers, issued, postBy>>

\* (mutant) the marker keeps the promise of a refresh that failed
resetMarker_onSuccessOnly(promise) ==
    IF promise.answer = "ok" THEN NoRefresh ELSE [promise EXCEPT !.st = "settled"]

\* refreshPromise = null (line 248)
resetMarker(promise) == NoRefresh

\* .finally (lines 247-249): the marker is reset and the promise settles;
\* every awaiting caller resumes with the value
RefreshFinally ==
    /\ UNCHANGED <<serverVars, openerVars>>
    /\ refreshPromise.st = "returned"
    /\ refreshPromise' = resetMarker(refreshPromise)
    /\ callers' = [c \in DOMAIN callers |->
          IF callers[c].pc = "waitRefresh"
          THEN Done(callers[c].op,
                    IF callers[c].op = "getValidAccessToken"
                    THEN accessTokenOf(refreshPromise.value)
                    ELSE refreshPromise.value,
                    callers[c].sent)
          ELSE callers[c]]
    /\ profilePromise' =
          IF profilePromise.st = "awaitRefresh"
          THEN [profilePromise EXCEPT !.st = "resume", !.got = refreshPromise.value]
          ELSE profilePromise
    /\ UNCHANGED <<now, tokenStore, userStore, userCache, issued, postBy>>

\* --------------------------------------------- client: fetchCurrentUser
\* requestProfile(token) is sent (lines 118-123)
RequestProfile(p, token) ==
    [p EXCEPT !.st = "req", !.token = token, !.got = Null, !.reqs = p.reqs + 1]

\* fetchCurrentUser() (lines 254-264): share the in-flight promise, or start
\* the async body, which runs ensureAccessToken() up to its first await
FetchCurrentUser(c) ==
    /\ UNCHANGED <<serverVars, openerVars>>
    /\ ~Draining
    /\ MayCall(c)
    /\ LET me == [pc |-> "waitProfile", op |-> "fetchCurrentUser",
                  result |-> Null, sent |-> Null, reqs |-> 0]
       IN
       IF profileInFlight(profilePromise)
       THEN /\ callers' = [callers EXCEPT ![c] = me]
            /\ UNCHANGED <<tokenStore, userStore, userCache, refreshPromise,
                           profilePromise, postBy>>
       ELSE IF cachedAccessToken(tokenStore) # Null
       THEN /\ profilePromise' = RequestProfile(NoProfile, cachedAccessToken(tokenStore))
            /\ callers' = [callers EXCEPT ![c] = me]
            /\ UNCHANGED <<tokenStore, userStore, userCache, refreshPromise, postBy>>
       ELSE CASE refreshCall = "join" ->
                   /\ profilePromise' = [NoProfile EXCEPT !.st = "awaitRefresh"]
                   /\ callers' = [callers EXCEPT ![c] = me]
                   /\ UNCHANGED <<tokenStore, userStore, userCache,
                                  refreshPromise, postBy>>
              [] refreshCall = "null" ->
                   /\ SetMem(clearStoredSession(Mem))
                   /\ callers' = [callers EXCEPT ![c] =
                                    Done("fetchCurrentUser", Null, Null)]
                   /\ UNCHANGED <<refreshPromise, profilePromise, postBy>>
              [] refreshCall = "start" ->
                   /\ Len(postBy) < MaxPosts
                   /\ refreshPromise' = [st |-> "fetch",
                                         sent |-> getValidRefreshToken(tokenStore),
                                         answer |-> "none", value |-> Null]
                   /\ postBy' = Append(postBy, "fetchCurrentUser")
                   /\ profilePromise' = [NoProfile EXCEPT !.st = "awaitRefresh"]
                   /\ callers' = [callers EXCEPT ![c] = me]
                   /\ UNCHANGED <<tokenStore, userStore, userCache>>
    /\ UNCHANGED <<now, issued>>

\* fetchCurrentUser gives up after the refresh it awaited: ensureAccessToken
\* gave no access credential (lines 260-264), or the forced refresh gave
\* nothing at all (lines 277-281); a forced refresh that gave a payload
\* without credentials is followed by a request all the same
givesUp(p) ==
    IF p.forced = 0 THEN accessTokenOf(p.got) = Null ELSE p.got = Null

\* The body resumes after an awaited refresh settled: after ensureAccessToken
\* (lines 260-267) or after the forced refresh (lines 277-283)
ProfileResume ==
    /\ UNCHANGED <<serverVars, openerVars>>
    /\ profilePromise.st = "resume"
    /\ IF givesUp(profilePromise)
       THEN /\ SetMem(clearStoredSession(Mem))
            /\ FinishProfile(Null, callers)
       ELSE /\ profilePromise' =
                  RequestProfile(profilePromise, accessTokenOf(profilePromise.got))
            /\ UNCHANGED <<tokenStore, userStore, userCache, callers>>
    /\ UNCHANGED <<now, refreshPromise, issued, postBy>>

\* (mutant) every failure of the profile request counts as unauthorized
unauthorized_anyFailure(kind) == kind \in {"unauthorized", "error"}

\* requestProfile, lines 125-127: response.status === 401 || 403
unauthorized(kind) == kind = "unauthorized"

\* GET /users/me answers (lines 125-136 and 268-296).  kind: "user" a profile
\* with an id, "nouser" an OK body without one, "unauthorized" 401 or 403,
\* "error" another status, a network failure or an unreadable body.
ProfileRespond(kind) ==
    /\ UNCHANGED <<serverVars, openerVars>>
    /\ ~Draining
    /\ profilePromise.st = "req"
    /\ kind = "user" => profilePromise.token # Null
    /\ CASE kind = "user" ->
              /\ SetMem(saveSessionUser(Mem, SessionUser(profilePromise.token.sub)))
              /\ FinishProfile(SessionUser(profilePromise.token.sub), callers)
              /\ UNCHANGED <<refreshPromise, postBy>>
         [] kind # "user" /\ ~unauthorized(kind) ->
              /\ FinishProfile(Null, callers)
              /\ UNCHANGED <<tokenStore, userStore, userCache, refreshPromise, postBy>>
         [] unauthorized(kind) /\ ~mayRetry(profilePromise) ->
              /\ SetMem(clearStoredSession(Mem))
              /\ FinishProfile(Null, callers)
              /\ UNCHANGED <<refreshPromise, postBy>>
         [] unauthorized(kind) /\ mayRetry(profilePromise) ->
              CASE refreshCall = "join" ->
                     /\ profilePromise' = [profilePromise EXCEPT
                                !.st = "awaitRefresh", !.forced = profilePromise.forced + 1]
                     /\ UNCHANGED <<tokenStore, userStore, userCache,
                                    refreshPromise, postBy, callers>>
                [] refreshCall = "null" ->
                     /\ SetMem(clearStoredSession(Mem))
                     /\ FinishProfile(Null, callers)
                     /\ UNCHANGED <<refreshPromise, postBy>>
                [] refreshCall = "start" ->
                     /\ Len(postBy) < MaxPosts
                     /\ refreshPromise' = [st |-> "fetch",
                                           sent |-> getValidRefreshToken(tokenStore),
                                           answer |-> "none", value |-> Null]
                     /\ postBy' = Append(postBy, "fetchCurrentUser")
                     /\ profilePromise' = [profilePromise EXCEPT
                                !.st = "awaitRefresh", !.forced = profilePromise.forced + 1]
                     /\ UNCHANGED <<tokenStore, userStore, userCache, callers>>
    /\ UNCHANGED <<now, issued>>

\* ------------------------------------------------ client: other tasks
\* Number(payload.refreshTokenExpireIn) of a response (lines 183-184): the
\* instant the server gave, 0 for null, NaN for a field that is not there
refreshTokenExpireIn(expireIn) ==
    IF expireIn \in {0, NaN} THEN expireIn ELSE now + expireIn

\* The sign-in page stores the pair the API server issued
\* (app/auth/github/callback/page.tsx, line 154)
Login(u, accessTtl, refreshTtl) ==
    /\ UNCHANGED <<serverVars, openerVars>>
    /\ ~Draining
    /\ issued < MaxIssued
    /\ SetMem(persistTokenPayload(Mem,
          TokenPayloadDto(u, issued + 1, now + accessTtl,
                          refreshTokenExpireIn(refreshTtl),
                          SessionUser(u))))
    /\ issued' = issued + 1
    /\ UNCHANGED <<now, refreshPromise, profilePromise, callers, postBy>>

\* handleLogout of AuthStatus: clearStoredSession()
Logout ==
    /\ UNCHANGED <<serverVars, openerVars>>
    /\ ~Draining
    /\ SetMem(clearStoredSession(Mem))
    /\ UNCHANGED <<now, refreshPromise, profilePromise, callers, issued, postBy>>

\* getStoredSessionUser() fills the mirror from storage (lines 148-166)
GetStoredSessionUser ==
    /\ UNCHANGED <<serverVars, openerVars>>
    /\ ~Draining
    /\ userCache' = getStoredSessionUser(Mem)
    /\ UNCHANGED <<now, tokenStore, userStore, refreshPromise, profilePromise,
                   callers, issued, postBy>>

\* Time passes
Tick ==
    /\ UNCHANGED <<serverVars, openerVars>>
    /\ ~Draining
    /\ now < MaxNow
    /\ now' = now + TOKEN_SKEW_MS
    /\ UNCHANGED <<tokenStore, userStore, userCache, refreshPromise,
                   profilePromise, callers, issued, postBy>>

\* ------------------------------------------------ client: specification
\* The module as loaded, and a server that has had no callback request
Init ==
    /\ now = 0
    /\ tokenStore = Null
    /\ userStore = Null
    /\ userCache = Null
    /\ refreshPromise = NoRefresh
    /\ profilePromise = NoProfile
    /\ callers = [c \in Callers |-> IdleCaller]
    /\ issued = 0
    /\ postBy = <<>>
    /\ users = {}
    /\ reqs = <<>>
    /\ clock = 1
    /\ wall = 0
    /\ jwt = Null
    /\ verified = Null
    /\ encoded = Null
    /\ decoded = Null
    /\ auth = Mounted
    /\ page = PageMounted
    /\ popup = NoPopup
    /\ inbox = <<>>
    /\ lastMessage = Null

RefreshKinds == {"ok", "notok", "throw"}
ProfileKinds == {"user", "nouser", "unauthorized", "error"}

ClientNext ==
    \/ \E c \in Callers : GetValidAccessToken(c)
    \/ \E c \in Callers : RefreshTokens(c)
    \/ \E c \in Callers : FetchCurrentUser(c)
    \/ \E kind \in RefreshKinds, a \in AccessTtls, r \in RefreshTtls :
          \E withUser \in BOOLEAN : RefreshRespond(kind, a, r, withUser)
    \/ RefreshCatch
    \/ RefreshFinally
    \/ ProfileResume
    \/ \E kind \in ProfileKinds : ProfileRespond(kind)
    \/ \E u \in Users, a \in AccessTtls, r \in RefreshTtls : Login(u, a, r)
    \/ Logout
    \/ GetStoredSessionUser
    \/ Tick

\* The server is left alone while the client is studied, and the other way
\* round
Spec == Init /\ [][ClientNext]_vars

\* ------------------------------------- client: responses of any shape
\* The token functions alone, with responses in which a field is missing:
\* a login payload whose refresh expiry is null or absent, and a refresh
\* answer without credentials
ResponseKinds == RefreshKinds \cup {"malformed"}

RefreshNext ==
    \/ \E c \in Callers : GetValidAccessToken(c)
    \/ \E c \in Callers : RefreshTokens(c)
    \/ \E kind \in ResponseKinds, a \in AccessTtls, r \in RefreshTtls :
          \E withUser \in BOOLEAN : RefreshRespond(kind, a, r, withUser)
    \/ RefreshCatch
    \/ RefreshFinally
    \/ \E u \in Users, a \in AccessTtls, r \in RefreshTtls \cup {0, NaN} :
          Login(u, a, r)
    \/ Logout
    \/ Tick

SpecRefresh == Init /\ [][RefreshNext]_vars

\* ------------------------------------------- client: the refresh scenario
\* A cache whose access credential is expired and whose refresh credential
\* is good for the whole run; the API is then called getValidAccessToken() or
\* refreshTokens() any number of times, and a successful refresh brings an
\* access credential that is good for the whole run.
ScenarioCallers == 1..(NumCallers + 1)

SingleFlightInit ==
    /\ now = TOKEN_SKEW_MS
    /\ \E accessExp \in {now, now + TOKEN_SKEW_MS}, user \in {SessionUser("u1"), Null} :
          /\ tokenStore = [accessToken |-> Token("u1", 1, "access"),
                           refreshToken |-> Token("u1", 1, "refresh"),
                           accessTokenExpireIn |-> accessExp,
                           refreshTokenExpireIn |-> now + LongTtl]
          /\ userStore = user
          /\ userCache = user
    /\ refreshPromise = NoRefresh
    /\ profilePromise = NoProfile
    /\ callers = [c \in ScenarioCallers |-> IdleCaller]
    /\ issued = 1
    /\ postBy = <<>>
    /\ users = {}
    /\ reqs = <<>>
    /\ clock = 1
    /\ wall = 0
    /\ jwt = Null
    /\ verified = Null
    /\ encoded = Null
    /\ decoded = Null
    /\ auth = Mounted
    /\ page = PageMounted
    /\ popup = NoPopup
    /\ inbox = <<>>
    /\ lastMessage = Null

SingleFlightNext ==
    \/ \E c \in ScenarioCallers : GetValidAccessToken(c)
    \/ \E c \in ScenarioCallers : RefreshTokens(c)
    \/ \E kind \in RefreshKinds, withUser \in BOOLEAN :
          RefreshRespond(kind, LongTtl, LongTtl, withUser)
    \/ RefreshCatch
    \/ RefreshFinally
    \/ Tick

SpecSingleFlight ==
    SingleFlightInit /\ [][SingleFlightNext]_vars

\* The access credential a finished call resolved to
resolvedAccess(caller) ==
    IF caller.op = "refreshTokens" THEN accessTokenOf(caller.result)
    ELSE caller.result

Cleared == tokenStore = Null /\ userStore = Null /\ userCache = Null

\* C2: a failed refresh is all-or-nothing.  When the refresh whose request
\* was answered by a non-OK status or by an exception settles, storage holds
\* no token payload and no user, the mirror is empty so that
\* getStoredSessionUser() returns null, and every caller waiting for it,
\* getValidAccessToken() among them, gets null.
C2_FailedRefreshAllOrNothing ==
    [][(/\ refreshPromise.st = "returned"
        /\ refreshPromise.answer \in {"notok", "throw"}
        /\ refreshPromise'.st = "none")
       => /\ tokenStore' = Null
          /\ userStore' = Null
          /\ userCache' = Null
          /\ \A c \in DOMAIN callers :
                callers[c].pc = "waitRefresh" =>
                   /\ callers'[c].pc = "done"
                   /\ callers'[c].result = Null]_clientVars

\* A getValidAccessToken() call got null from a refresh that failed, and
\* nothing is cached
C2_Witness ==
    \E c \in DOMAIN callers :
        /\ callers[c].pc = "done"
        /\ callers[c].op = "getValidAccessToken"
        /\ callers[c].sent # Null
        /\ callers[c].result = Null
        /\ Cleared
        /\ getStoredSessionUser(Mem) = Null

\* C3: the session is cleared before null is delivered.  In no state has a
\* caller of a failed refresh got its null while the refresh credential that
\* refresh sent is still readable from the cache; this holds for the body of
\* fetchCurrentUser about to resume with null as well.
C3_ClearedBeforeNull ==
    /\ \A c \in DOMAIN callers :
          /\ callers[c].pc = "done"
          /\ callers[c].sent # Null
          /\ resolvedAccess(callers[c]) = Null
          => \/ readStoredTokens(tokenStore) = Null
             \/ tokenStore.refreshToken # callers[c].sent
    /\ (profilePromise.st = "resume" /\ profilePromise.got = Null)
          => getValidRefreshToken(tokenStore) = Null

\* Null from a failed refresh has been delivered to two callers
C3_Witness ==
    \E c, d \in DOMAIN callers :
        /\ c # d
        /\ callers[c].pc = "done" /\ callers[d].pc = "done"
        /\ callers[c].sent # Null /\ callers[d].sent = callers[c].sent
        /\ resolvedAccess(callers[c]) = Null
        /\ resolvedAccess(callers[d]) = Null
        /\ getValidRefreshToken(tokenStore) = Null

\* C4: a getValidAccessToken() call that finds the access credential expired,
\* no refresh in flight and the refresh credential absent or expired clears
\* the whole cached session and returns null.
C4_ClearsWithoutRefreshCredential ==
    [][\A c \in DOMAIN callers :
          (/\ GetValidAccessToken(c)
           /\ cachedAccessToken(tokenStore) = Null
           /\ ~refreshInFlight(refreshPromise)
           /\ getValidRefreshToken(tokenStore) = Null)
          => /\ callers'[c].result = Null
             /\ tokenStore' = Null
             /\ userStore' = Null
             /\ userCache' = Null]_clientVars

\* C5: a successful refresh replaces the cached session wholesale.  When it
\* settles, the four stored credential fields are those of its response, the
\* stored and the mirrored user are the user of that response, and every
\* caller waiting for it gets the response, getValidAccessToken() its access
\* credential.  The stored pair is never a mix of two responses.
C5_WholesaleReplace ==
    /\ [](readStoredTokens(tokenStore) # Null =>
             /\ tokenStore.accessToken.gen = tokenStore.refreshToken.gen
             /\ tokenStore.accessToken.sub = tokenStore.refreshToken.sub)
    /\ [][(/\ refreshPromise.st = "returned"
           /\ refreshPromise.answer = "ok"
           /\ refreshPromise'.st = "none")
          => /\ tokenStore' =
                  [accessToken |-> refreshPromise.value.accessToken,
                   refreshToken |-> refreshPromise.value.refreshToken,
                   accessTokenExpireIn |-> refreshPromise.value.accessTokenExpireIn,
                   refreshTokenExpireIn |-> refreshPromise.value.refreshTokenExpireIn]
             /\ userStore' = refreshPromise.value.user
             /\ userCache' = refreshPromise.value.user
             /\ \A c \in DOMAIN callers :
                   callers[c].pc = "waitRefresh" =>
                      /\ callers'[c].pc = "done"
                      /\ resolvedAccess(callers'[c]) =
                            refreshPromise.value.accessToken]_clientVars

\* A refresh replaced an earlier pair and its user, and a caller has the new
\* access credential
C5_Witness ==
    \E c \in DOMAIN callers :
        /\ callers[c].pc = "done"
        /\ callers[c].sent # Null
        /\ resolvedAccess(callers[c]) # Null
        /\ readStoredTokens(tokenStore) # Null
        /\ tokenStore.accessToken = resolvedAccess(callers[c])
        /\ tokenStore.refreshToken.gen > callers[c].sent.gen
        /\ userStore # Null

\* C6: a cached user is present only together with a cached credential pair
\* whose subject is that user.
C6_CachedUserHasItsCredential ==
    \A user \in {userStore, userCache} \ {Null} :
        /\ readStoredTokens(tokenStore) # Null
        /\ tokenStore.accessToken.sub = user.id

Codes == {"c1"}
Nonces == {"n1", "n2"}
GithubIds == {"42", "43"}      \* a numeric id, written as String(id) writes it
Emails == {"a@x"}
Logins == {"octo"}

\* !value of a string or of an absent value
falsy(value) == value \in {Missing, ""}

\* The payload of the state cookie
GithubStateCookiePayload(state, redirectTo) ==
    [state |-> state, redirectTo |-> redirectTo]

(* JSON values are kept as records: a JavaScript object is the record of  *)
(* its properties, null is Null, and a string (or another primitive) that *)
(* stands alone is wrapped.  A JSON text is the sequence of its tokens.   *)
Primitive(text) == [primitive |-> text]

\* value[key], undefined when the value has no such property
prop(value, key) == IF key \in DOMAIN value THEN value[key] ELSE Missing

\* !value of a parsed JSON value
notTruthy(value) == value = Null \/ value = Primitive("")

Tok(t, v) == [t |-> t, v |-> v]

\* The order in which JSON.stringify writes the properties it finds
KeyOrder == <<"state", "redirectTo", "other">>

RECURSIVE stringifyProps(_, _)
stringifyProps(value, i) ==
    IF i > Len(KeyOrder)
    THEN <<>>
    ELSE (IF KeyOrder[i] \in DOMAIN value
          THEN <<Tok("key", KeyOrder[i]), Tok("str", value[KeyOrder[i]])>>
          ELSE <<>>) \o stringifyProps(value, i + 1)

JSONstringify(value) ==
    IF value = Null
    THEN <<Tok("null", "")>>
    ELSE IF DOMAIN value = {"primitive"}
    THEN <<Tok("str", value.primitive)>>
    ELSE <<Tok("{", "")>> \o stringifyProps(value, 1) \o <<Tok("}", "")>>

\* The text is an object: braces around pairs of a key and a string
isObjectText(text) ==
    /\ Len(text) >= 2
    /\ text[1].t = "{"
    /\ text[Len(text)].t = "}"
    /\ Len(text) % 2 = 0
    /\ \A i \in 2..(Len(text) - 1) :
          text[i].t = IF i % 2 = 0 THEN "key" ELSE "str"

\* JSON.parse: the value of a text that is JSON (of a repeated key the last
\* value), and a throw for any other text
JSONparse(text) ==
    IF Len(text) = 1 /\ text[1].t = "null"
    THEN [throws |-> FALSE, value |-> Null]
    ELSE IF Len(text) = 1 /\ text[1].t = "str"
    THEN [throws |-> FALSE, value |-> Primitive(text[1].v)]
    ELSE IF isObjectText(text)
    THEN LET at(k) == {i \in 2..(Len(text) - 1) : i % 2 = 0 /\ text[i].v = k}
             last(k) == CHOOSE i \in at(k) : \A j \in at(k) : j <= i
         IN  [throws |-> FALSE,
              value |-> [k \in {text[i].v : i \in {j \in 2..(Len(text) - 1) : j % 2 = 0}}
                            |-> text[last(k) + 1].v]]
    ELSE [throws |-> TRUE, value |-> Null]

\* A cookie value is absent or a string.  A string of the base64url
\* alphabet is kept as the text it is the encoding of; what a string with
\* other characters in it decodes to depends on the characters, and any text
\* may come out.
base64url(text) == [kind |-> "string", alphabet |-> TRUE, bytes |-> text]
AbsentCookie == [kind |-> "absent", alphabet |-> TRUE, bytes |-> <<>>]

\* Buffer.from(value, "base64url").toString("utf-8"): it does not throw
fromBase64url(value) == value.bytes

\* Buffer.from(JSON.stringify(payload), "utf-8").toString("base64url")
encodeStateCookie(payload) == base64url(JSONstringify(payload))

decodeStateCookie(value) ==
    IF value.kind = "absent" \/ value = base64url(<<>>)
    THEN Null
    ELSE LET parsed == JSONparse(fromBase64url(value))
         IN  IF parsed.throws THEN Null ELSE parsed.value

\* The values the cookie github_oauth_state arrives with at the callback:
\* none, a string that is not the encoding of JSON, the encoding of an
\* object without a nonce, and the encoding the login start wrote for n1
GarbageCookie == base64url(<<Tok("junk", "")>>)
CookieValues ==
    {AbsentCookie, GarbageCookie,
     base64url(JSONstringify([other |-> "x"])),
     encodeStateCookie(GithubStateCookiePayload("n1", "/generate"))}

\* A variant of the second check that looks at the cookie only
stateRejected_cookieOnly(storedState, state) == notTruthy(storedState)

\* !storedState || storedState.state !== state
stateRejected(storedState, state) ==
    \/ notTruthy(storedState)
    \/ prop(storedState, "state") # state

\* String(profile.id ?? "").trim()
githubIdOf(profile) == IF profile.id = Missing THEN "" ELSE profile.id

\* A variant of the indexes of the users table without the one on github_id
uniqueViolated_emailOnly(rows, row) ==
    \E other \in rows :
        /\ other.id # row.id
        /\ row.email # Missing /\ other.email = row.email

\* The unique indexes users_github_id_unique and users_email_unique: a row
\* cannot be stored next to another row with its github_id or with its
\* (non-NULL) email
uniqueViolated(rows, row) ==
    \E other \in rows :
        /\ other.id # row.id
        /\ \/ other.githubId = row.githubId
           \/ row.email # Missing /\ other.email = row.email

\* db.query.users.findFirst({ where: eq(users.githubId, githubId) })
findFirst(rows, githubId) ==
    IF \E row \in rows : row.githubId = githubId
    THEN CHOOSE row \in rows : row.githubId = githubId
    ELSE Null

\* $defaultFn(uuidv7): an id no row has
newId(rows) == Cardinality(rows) + 1

ACCESS_TOKEN_TTL_SECONDS == 60 * 90
REFRESH_TOKEN_TTL_SECONDS == 60 * 60 * 24 * 14

\* The value of AUTH_JWT_SECRET, and a key that is not it
Secret == "k1"
Keys == {Secret, "k2"}

\* A variant of signToken that adds the lifetime to the clock's milliseconds
signToken_fromMillis(userId, kind, ttlSeconds, nowMs, key) ==
    [token |-> [kind |-> kind, sub |-> userId, iat |-> nowMs \div 1000,
                exp |-> nowMs + ttlSeconds, key |-> key],
     expiresAt |-> (nowMs + ttlSeconds) * 1000]

\* signToken at Date.now() = nowMs: the HS256 token is kept as its claims
\* and the key that signed it
signToken(userId, kind, ttlSeconds, nowMs, key) ==
    LET issuedAtSeconds == nowMs \div 1000
        expiresAtSeconds == issuedAtSeconds + ttlSeconds
    IN  [token |-> [kind |-> kind, sub |-> userId, iat |-> issuedAtSeconds,
                    exp |-> expiresAtSeconds, key |-> key],
         expiresAt |-> expiresAtSeconds * 1000]

\* A variant of issueTokenPair that signs both tokens as access tokens
issueTokenPair_bothAccess(userId, nowMs) ==
    LET access == signToken(userId, "access", ACCESS_TOKEN_TTL_SECONDS, nowMs, Secret)
        refresh == signToken(userId, "access", REFRESH_TOKEN_TTL_SECONDS, nowMs, Secret)
    IN  [accessToken |-> access.token,
         refreshToken |-> refresh.token,
         accessTokenExpiresAt |-> access.expiresAt,
         refreshTokenExpiresAt |-> refresh.expiresAt]

issueTokenPair(userId, nowMs) ==
    LET access == signToken(userId, "access", ACCESS_TOKEN_TTL_SECONDS, nowMs, Secret)
        refresh == signToken(userId, "refresh", REFRESH_TOKEN_TTL_SECONDS, nowMs, Secret)
    IN  [accessToken |-> access.token,
         refreshToken |-> refresh.token,
         accessTokenExpiresAt |-> access.expiresAt,
         refreshTokenExpiresAt |-> refresh.expiresAt]

Names == {Missing}
AvatarUrls == {"a.png"}

NoProfileYet ==
    [id |-> Missing, login |-> Missing, name |-> Missing, email |-> Missing,
     avatar_url |-> Missing]

\* The values the update sets (lines 59-66)
userUpdate(request) ==
    [login |-> request.profile.login,
     name |-> IF request.profile.name = Missing
              THEN request.profile.login ELSE request.profile.name,
     email |-> request.primaryEmail,
     avatarUrl |-> request.profile.avatar_url,
     updatedAt |-> request.now,
     lastLoginAt |-> request.now]

\* A variant of the update that writes the row anew, created_at included
setRow_recreates(row, set) ==
    [row EXCEPT !.login = set.login, !.name = set.name, !.email = set.email,
                !.avatarUrl = set.avatarUrl, !.createdAt = set.updatedAt,
                !.updatedAt = set.updatedAt, !.lastLoginAt = set.lastLoginAt]

\* UPDATE users SET ... of lines 71-74, on one row
setRow(row, set) ==
    [row EXCEPT !.login = set.login, !.name = set.name, !.email = set.email,
                !.avatarUrl = set.avatarUrl, !.updatedAt = set.updatedAt,
                !.lastLoginAt = set.lastLoginAt]

NewRequest(code, state, cookieValue) ==
    [pc |-> "GET", code |-> code, state |-> state, cookieValue |-> cookieValue,
     storedState |-> Null, providerCalls |-> <<>>, profile |-> NoProfileYet,
     primaryEmail |-> Missing, githubId |-> "", now |-> 0, existing |-> Null,
     lookedUp |-> FALSE, writes |-> 0, userId |-> 0, resp |-> Null]

\* NextResponse.json({ error }, { status: 400 })
BadRequest(error) ==
    [status |-> 400, error |-> error, tokens |-> Null, clearsState |-> FALSE]

\* The catch block: a redirect to /?authError=message that deletes the
\* state cookie
Failed(request, message) ==
    [request EXCEPT !.pc = "done",
        !.resp = [status |-> 307, error |-> message, tokens |-> Null,
                  clearsState |-> TRUE]]

\* Lines 47-57, after the profile and the email are known: the id check,
\* the reading of the clock, and the lookup being sent
AfterEmail(request, t) ==
    LET githubId == githubIdOf(request.profile)
    IN  IF falsy(githubId)
        THEN Failed(request, "GitHub profile id missing.")
        ELSE [request EXCEPT !.githubId = githubId, !.now = t,
                             !.pc = "findFirst"]

\* A callback request arrives: lines 27-43.  The two checks answer 400; a
\* request that passes them sends the code to the provider's token endpoint.
GET(code, state, cookieValue) ==
    /\ UNCHANGED <<clientVars, openerVars, tokenVars, codecVars>>
    /\ Len(reqs) < NumReqs
    /\ LET request == NewRequest(code, state, cookieValue)
           storedState == decodeStateCookie(cookieValue)
       IN  reqs' = Append(reqs,
             IF falsy(code) \/ falsy(state)
             THEN [request EXCEPT !.pc = "done",
                      !.resp = BadRequest("Missing OAuth parameters.")]
             ELSE IF stateRejected(storedState, state)
             THEN [request EXCEPT !.pc = "done",
                      !.resp = BadRequest("Invalid or expired OAuth state.")]
             ELSE [request EXCEPT !.pc = "exchangeCodeForToken",
                      !.storedState = storedState,
                      !.providerCalls = <<"token">>])
    /\ UNCHANGED <<users, clock>>

\* The token endpoint answers: with an access token, and the profile is
\* asked for, or with a failure
ExchangeCodeForToken(r, ok) ==
    /\ UNCHANGED <<clientVars, openerVars, tokenVars, codecVars>>
    /\ reqs[r].pc = "exchangeCodeForToken"
    /\ reqs' = [reqs EXCEPT ![r] =
          IF ok
          THEN [@ EXCEPT !.pc = "fetchGithubProfile",
                         !.providerCalls = Append(@, "profile")]
          ELSE Failed(@, "GitHub token exchange failed.")]
    /\ UNCHANGED <<users, clock>>

\* The profile endpoint answers.  A profile with an email needs no call to
\* the emails endpoint.
FetchGithubProfile(r, ok, profile) ==
    /\ UNCHANGED <<clientVars, openerVars, tokenVars, codecVars>>
    /\ reqs[r].pc = "fetchGithubProfile"
    /\ IF ~ok
       THEN /\ reqs' = [reqs EXCEPT ![r] =
                   Failed(@, "Unable to fetch GitHub profile.")]
            /\ UNCHANGED clock
       ELSE IF profile.email = Missing
       THEN /\ reqs' = [reqs EXCEPT ![r] =
                   [@ EXCEPT !.profile = profile,
                             !.pc = "fetchGithubPrimaryEmail",
                             !.providerCalls = Append(@, "emails")]]
            /\ UNCHANGED clock
       ELSE \E t \in clock..MaxClock :
              /\ reqs' = [reqs EXCEPT ![r] =
                    AfterEmail([@ EXCEPT !.profile = profile,
                                         !.primaryEmail = profile.email], t)]
              /\ clock' = IF falsy(githubIdOf(profile)) THEN clock ELSE t
    /\ UNCHANGED users

\* The emails endpoint answers: the primary verified email, or none (also
\* when the answer is not ok)
FetchGithubPrimaryEmail(r, email) ==
    /\ UNCHANGED <<clientVars, openerVars, tokenVars, codecVars>>
    /\ reqs[r].pc = "fetchGithubPrimaryEmail"
    /\ \E t \in clock..MaxClock :
          /\ reqs' = [reqs EXCEPT ![r] =
                AfterEmail([@ EXCEPT !.primaryEmail = email], t)]
          /\ clock' = IF falsy(githubIdOf(reqs[r].profile)) THEN clock ELSE t
    /\ UNCHANGED users

\* The store answers the lookup by github_id; the handler sends the update
\* of the row it found, or the insert of a new row
FindFirst(r) ==
    /\ UNCHANGED <<clientVars, openerVars, tokenVars, codecVars>>
    /\ reqs[r].pc = "findFirst"
    /\ LET existing == findFirst(users, reqs[r].githubId)
       IN  reqs' = [reqs EXCEPT ![r] =
              [@ EXCEPT !.existing = existing,
                        !.lookedUp = TRUE,
                        !.pc = IF existing # Null THEN "update" ELSE "insert"]]
    /\ UNCHANGED <<users, clock>>

\* Lines 97-122: the credentials for the user and the redirect that sets
\* them and deletes the state cookie
Succeeded(request, userId) ==
    [request EXCEPT !.pc = "done", !.userId = userId,
        !.resp = [status |-> 307, error |-> Missing,
                  tokens |-> issueTokenPair(userId, request.now * 1000),
                  clearsState |-> TRUE]]

\* The store runs the update of lines 71-74
Update(r) ==
    /\ UNCHANGED <<clientVars, openerVars, tokenVars, codecVars>>
    /\ reqs[r].pc = "update"
    /\ LET request == reqs[r]
           old == request.existing
           row == setRow(old, userUpdate(request))
           stored == {u \in users : u.id = old.id}
       IN  IF stored # {} /\ uniqueViolated(users, row)
           THEN /\ reqs' = [reqs EXCEPT ![r] =
                       Failed(@, "UNIQUE constraint failed")]
                /\ UNCHANGED users
           ELSE /\ users' = (users \ stored) \cup
                       {setRow(u, userUpdate(request)) : u \in stored}
                /\ reqs' = [reqs EXCEPT ![r] =
                       Succeeded([@ EXCEPT !.writes = 1], old.id)]
    /\ UNCHANGED clock

\* The store runs the insert of lines 77-90
Insert(r) ==
    /\ UNCHANGED <<clientVars, openerVars, tokenVars, codecVars>>
    /\ reqs[r].pc = "insert"
    /\ LET request == reqs[r]
           row == [id |-> newId(users), githubId |-> request.githubId,
                   login |-> userUpdate(request).login,
                   name |-> userUpdate(request).name,
                   email |-> userUpdate(request).email,
                   avatarUrl |-> userUpdate(request).avatarUrl,
                   createdAt |-> request.now, updatedAt |-> request.now,
                   lastLoginAt |-> request.now]
       IN  IF uniqueViolated(users, row)
           THEN /\ reqs' = [reqs EXCEPT ![r] =
                       Failed(@, "UNIQUE constraint failed")]
                /\ UNCHANGED users
           ELSE /\ users' = users \cup {row}
                /\ reqs' = [reqs EXCEPT ![r] =
                       Succeeded([@ EXCEPT !.writes = 1], row.id)]
    /\ UNCHANGED clock

Profiles ==
    [id : GithubIds \cup {Missing}, login : Logins, name : Names,
     email : Emails \cup {Missing}, avatar_url : AvatarUrls]

ServerNext ==
    \/ \E code \in Codes \cup {Missing}, state \in Nonces \cup {Missing},
          cookieValue \in CookieValues : GET(code, state, cookieValue)
    \/ \E r \in DOMAIN reqs, ok \in BOOLEAN : ExchangeCodeForToken(r, ok)
    \/ \E r \in DOMAIN reqs, ok \in BOOLEAN, profile \in Profiles :
          FetchGithubProfile(r, ok, profile)
    \/ \E r \in DOMAIN reqs, email \in Emails \cup {Missing} :
          FetchGithubPrimaryEmail(r, email)
    \/ \E r \in DOMAIN reqs : FindFirst(r)
    \/ \E r \in DOMAIN reqs : Update(r)
    \/ \E r \in DOMAIN reqs : Insert(r)

\* A row an earlier login stored
StoredUser ==
    [id |-> 1, githubId |-> "43", login |-> "octo", name |-> "octo",
     email |-> Missing, avatarUrl |-> "a.png",
     createdAt |-> 1, updatedAt |-> 1, lastLoginAt |-> 1]

\* The server after one login (github_id 43, no email, at instant 1) has
\* been served, and a client that is left alone
CallbackInit ==
    /\ now = 0
    /\ tokenStore = Null
    /\ userStore = Null
    /\ userCache = Null
    /\ refreshPromise = NoRefresh
    /\ profilePromise = NoProfile
    /\ callers = [c \in Callers |-> IdleCaller]
    /\ issued = 0
    /\ postBy = <<>>
    /\ users = {StoredUser}
    /\ reqs = <<>>
    /\ clock = 1
    /\ wall = 0
    /\ jwt = Null
    /\ verified = Null
    /\ encoded = Null
    /\ decoded = Null
    /\ auth = Mounted
    /\ page = PageMounted
    /\ popup = NoPopup
    /\ inbox = <<>>
    /\ lastMessage = Null

SpecCallback ==
    CallbackInit /\ [][ServerNext]_vars

(***************************************************************************)
(* Claims about the OAuth callback                                         *)
(***************************************************************************)

\* The request carried a state cookie that decodes to a payload whose nonce
\* is the state parameter of the request
NonceMatched(request) ==
    /\ request.cookieValue.kind = "string"
    /\ request.state \in Nonces
    /\ ~JSONparse(request.cookieValue.bytes).throws
    /\ prop(JSONparse(request.cookieValue.bytes).value, "state") = request.state

\* C8: a callback whose state cookie is missing, cannot be decoded, or holds
\* a nonce other than the state parameter is answered with a rejection and
\* has made no call to the provider, no lookup or write in the identity
\* store and no credentials; a request that called the provider had its
\* nonce matched first.
C8_HandshakeBeforeProvider ==
    \A r \in DOMAIN reqs :
        /\ ~NonceMatched(reqs[r]) =>
              /\ reqs[r].pc = "done"
              /\ reqs[r].resp.status = 400
              /\ reqs[r].providerCalls = <<>>
              /\ ~reqs[r].lookedUp
              /\ reqs[r].writes = 0
              /\ reqs[r].resp.tokens = Null
        /\ reqs[r].providerCalls # <<>> =>
              /\ NonceMatched(reqs[r])
              /\ reqs[r].providerCalls[1] = "token"

\* One request was rejected because its nonce is not the one of its cookie, and
\* another one went on to the provider
C8_Witness ==
    /\ \E r \in DOMAIN reqs :
          /\ reqs[r].code \in Codes /\ reqs[r].state = "n2"
          /\ reqs[r].cookieValue =
                encodeStateCookie(GithubStateCookiePayload("n1", "/generate"))
          /\ reqs[r].pc = "done" /\ reqs[r].resp.status = 400
    /\ \E r \in DOMAIN reqs :
          /\ reqs[r].providerCalls # <<>>
          /\ reqs[r].pc = "done" /\ reqs[r].resp.tokens # Null

\* C9: the response of every callback that arrived with a state cookie
\* deletes that cookie, whatever the outcome.
C9_StateCookieSingleUse ==
    \A r \in DOMAIN reqs :
        (reqs[r].pc = "done" /\ reqs[r].cookieValue.kind # "absent")
            => reqs[r].resp.clearsState

\* C10: the users table never holds two rows with the same github_id.
C10_OneIdentityPerProviderId ==
    \A a \in users, b \in users : a.githubId = b.githubId => a = b

\* Two callbacks for the same github_id both looked the user up before
\* either stored it; one of them stored the row and the other failed
C10_Witness ==
    \E r1 \in DOMAIN reqs, r2 \in DOMAIN reqs :
        /\ r1 # r2
        /\ reqs[r1].githubId = reqs[r2].githubId
        /\ reqs[r1].lookedUp /\ reqs[r1].existing = Null
        /\ reqs[r2].lookedUp /\ reqs[r2].existing = Null
        /\ reqs[r1].pc = "done" /\ reqs[r1].writes = 1
        /\ reqs[r2].pc = "done" /\ reqs[r2].writes = 0
        /\ \E row \in users : row.githubId = reqs[r1].githubId

\* C11: two callbacks for one github_id that both looked the user up before
\* either stored it both end with credentials, and the credentials of both
\* name the same user id.
C11_ConcurrentLoginsBothMinted ==
    \A r1 \in DOMAIN reqs, r2 \in DOMAIN reqs :
        (/\ r1 # r2
         /\ reqs[r1].githubId = reqs[r2].githubId
         /\ reqs[r1].lookedUp /\ reqs[r1].existing = Null
         /\ reqs[r2].lookedUp /\ reqs[r2].existing = Null
         /\ reqs[r1].pc = "done" /\ reqs[r2].pc = "done")
        => /\ reqs[r1].resp.tokens # Null
           /\ reqs[r2].resp.tokens # Null
           /\ reqs[r1].resp.tokens.accessToken.sub
                 = reqs[r2].resp.tokens.accessToken.sub

\* C12: a login for a github_id that has a row sets login, name, email,
\* avatarUrl, updatedAt and lastLoginAt of that row from the profile and
\* leaves its id, githubId and createdAt as they were; every other row stays
\* as it was, and both credentials issued name the id of the row.
C12_UpdateFrame ==
    [][\A r \in DOMAIN reqs :
          (/\ reqs[r].pc = "update"
           /\ reqs'[r].pc = "done"
           /\ reqs'[r].resp.tokens # Null)
          => \E old \in users, new \in users' :
                /\ old.id = reqs[r].existing.id
                /\ new.id = old.id
                /\ new.githubId = old.githubId
                /\ new.createdAt = old.createdAt
                /\ new.login = reqs[r].profile.login
                /\ new.name = reqs[r].profile.login
                /\ new.email = reqs[r].primaryEmail
                /\ new.avatarUrl = reqs[r].profile.avatar_url
                /\ new.updatedAt = reqs[r].now
                /\ new.lastLoginAt = reqs[r].now
                /\ users' \ {new} = users \ {old}
                /\ reqs'[r].resp.tokens.accessToken.sub = old.id
                /\ reqs'[r].resp.tokens.refreshToken.sub = old.id]_vars

\* A second login of a known user, at a later instant and with another
\* email than the row had, has updated the row next to another user's row
C12_Witness ==
    \E r \in DOMAIN reqs, row \in users, other \in users :
        /\ reqs[r].pc = "done" /\ reqs[r].writes = 1
        /\ reqs[r].existing # Null
        /\ row.id = reqs[r].existing.id
        /\ other.id # row.id
        /\ row.createdAt = reqs[r].existing.createdAt
        /\ row.updatedAt = reqs[r].now
        /\ row.updatedAt # row.createdAt
        /\ row.email # reqs[r].existing.email
        /\ reqs[r].resp.tokens.accessToken.sub = row.id

(***************************************************************************)
(* The token service of the server: signToken and verifyToken of           *)
(* src/lib/auth.ts, applied to small inputs while the clock runs.          *)
(***************************************************************************)

TokenUsers == {1, 2}
TokenKinds == {"access", "refresh"}
TokenTtls == {1, 2}           \* ttlSeconds
HalfSecond == 500             \* the step of the clock, in milliseconds

\* jwtVerify(token, key) at Date.now() = nowMs: the signature is checked
\* first, then the exp claim against the clock's whole seconds
jwtVerify(token, key, nowMs) ==
    IF token.key # key
    THEN [ok |-> FALSE, error |-> "JWSSignatureVerificationFailed", payload |-> Null]
    ELSE IF token.exp <= nowMs \div 1000
    THEN [ok |-> FALSE, error |-> "JWTExpired", payload |-> Null]
    ELSE [ok |-> TRUE, error |-> Missing,
          payload |-> [kind |-> token.kind, sub |-> token.sub,
                       iat |-> token.iat, exp |-> token.exp]]

\* verifyToken: what jwtVerify throws is thrown on; the kind of a verified
\* payload is compared after that
verifyToken(token, expectedKind, nowMs, key) ==
    LET verdict == jwtVerify(token, key, nowMs)
    IN  IF ~verdict.ok
        THEN verdict
        ELSE IF verdict.payload.kind # expectedKind
        THEN [ok |-> FALSE, error |-> "Invalid token kind.", payload |-> Null]
        ELSE verdict

\* signToken(userId, kind, ttlSeconds) is called
SignToken(userId, kind, ttlSeconds) ==
    /\ jwt' = [token |-> signToken(userId, kind, ttlSeconds, wall, Secret).token,
               userId |-> userId, kind |-> kind, ttlSeconds |-> ttlSeconds,
               mintedAt |-> wall, key |-> Secret]
    /\ UNCHANGED <<wall, verified, clientVars, openerVars, callbackVars, codecVars>>

\* Somebody who does not know the secret makes a token of the same shape
Forge(userId, kind, ttlSeconds) ==
    /\ jwt' = [token |-> signToken(userId, kind, ttlSeconds, wall, "k2").token,
               userId |-> userId, kind |-> kind, ttlSeconds |-> ttlSeconds,
               mintedAt |-> wall, key |-> "k2"]
    /\ UNCHANGED <<wall, verified, clientVars, openerVars, callbackVars, codecVars>>

\* verifyToken(token, expectedKind) is called with the token made last
VerifyToken(expectedKind) ==
    /\ jwt # Null
    /\ verified' = [jwt |-> jwt, expectedKind |-> expectedKind, at |-> wall,
                    result |-> verifyToken(jwt.token, expectedKind, wall, Secret)]
    /\ UNCHANGED <<wall, jwt, clientVars, openerVars, callbackVars, codecVars>>

TokenTick ==
    /\ wall < MaxSeconds * 1000
    /\ wall' = wall + HalfSecond
    /\ UNCHANGED <<jwt, verified, clientVars, openerVars, callbackVars, codecVars>>

TokenNext ==
    \/ \E userId \in TokenUsers, kind \in TokenKinds, ttlSeconds \in TokenTtls :
          SignToken(userId, kind, ttlSeconds)
    \/ \E userId \in TokenUsers, kind \in TokenKinds, ttlSeconds \in TokenTtls :
          Forge(userId, kind, ttlSeconds)
    \/ \E expectedKind \in TokenKinds : VerifyToken(expectedKind)
    \/ TokenTick

SpecToken == Init /\ [][TokenNext]_vars

\* C13: verifying a refresh token of the service as an access token fails
\* with the kind error, before and after the token's expiry.
C13_RefreshAsAccessIsKindError ==
    (/\ verified # Null
     /\ verified.jwt.kind = "refresh"
     /\ verified.jwt.key = Secret
     /\ verified.expectedKind = "access")
    => /\ ~verified.result.ok
       /\ verified.result.error = "Invalid token kind."

\* C14: an access token the service minted in second issuedAt for userId
\* with lifetime ttl verifies as an access token, with subject userId, at
\* every instant whose second is before issuedAt + ttl, and fails with the
\* expiry error at every instant from second issuedAt + ttl on.
C14_AccessValidUntilExpiry ==
    (/\ verified # Null
     /\ verified.jwt.kind = "access"
     /\ verified.jwt.key = Secret
     /\ verified.expectedKind = "access")
    => LET issuedAt == verified.jwt.mintedAt \div 1000
           nowSeconds == verified.at \div 1000
       IN  IF nowSeconds < issuedAt + verified.jwt.ttlSeconds
           THEN /\ verified.result.ok
                /\ verified.result.payload.sub = verified.jwt.userId
                /\ verified.result.payload.kind = "access"
           ELSE /\ ~verified.result.ok
                /\ verified.result.error = "JWTExpired"

\* An access token minted in the middle of a second was verified in the
\* second issuedAt + ttl, and was found expired
C14_Witness ==
    /\ verified # Null
    /\ verified.jwt.kind = "access" /\ verified.jwt.key = Secret
    /\ verified.expectedKind = "access"
    /\ verified.jwt.mintedAt = HalfSecond
    /\ verified.at = verified.jwt.ttlSeconds * 1000
    /\ ~verified.result.ok

(***************************************************************************)
(* The state codec of src/lib/github.ts, applied to small inputs.          *)
(***************************************************************************)

CodecStrings == {"n1", "/generate"}

\* The handshake states the login start encodes
Payloads ==
    {GithubStateCookiePayload(state, redirectTo) :
        state \in {"n1", "n2"}, redirectTo \in {"/generate", "/"}}

\* JSON values: null, a string, and the objects with properties among state,
\* redirectTo and other
JsonValues ==
    {Null, Primitive("n1"), Primitive("")}
    \cup UNION {[keys -> CodecStrings] : keys \in SUBSET {"state", "redirectTo", "other"}}

\* Texts that are not JSON
NotJson ==
    {<<>>, <<Tok("junk", "")>>, <<Tok("{", "")>>,
     <<Tok("{", ""), Tok("key", "state"), Tok("}", "")>>,
     <<Tok("{", ""), Tok("key", "state"), Tok("str", "n1")>>}

\* The values decodeStateCookie is called with: no value, the empty string,
\* and strings, of the base64url alphabet or not, that decode to a text
DecodeInputs ==
    {AbsentCookie}
    \cup {[kind |-> "string", alphabet |-> alphabet, bytes |-> text] :
            alphabet \in BOOLEAN,
            text \in {JSONstringify(value) : value \in JsonValues} \cup NotJson}

EncodeStateCookie(payload) ==
    /\ encoded' = [payload |-> payload, cookie |-> encodeStateCookie(payload)]
    /\ UNCHANGED <<decoded, clientVars, openerVars, callbackVars, tokenVars>>

DecodeStateCookie(value) ==
    /\ decoded' = [input |-> value, output |-> decodeStateCookie(value)]
    /\ UNCHANGED <<encoded, clientVars, openerVars, callbackVars, tokenVars>>

CodecNext ==
    \/ \E payload \in Payloads : EncodeStateCookie(payload)
    \/ \E value \in DecodeInputs \cup
                    (IF encoded = Null THEN {} ELSE {encoded.cookie}) :
          DecodeStateCookie(value)

SpecCodec == Init /\ [][CodecNext]_vars

\* The value is the encoding of a handshake state
isStateEncoding(value) ==
    \E state \in {"n1", "n2", "/generate", "/"},
       redirectTo \in {"n1", "n2", "/generate", "/"} :
          value = encodeStateCookie(GithubStateCookiePayload(state, redirectTo))

\* C15: decodeStateCookie gives back the handshake state encodeStateCookie
\* was given, and gives null for every value that is not the encoding of a
\* handshake state.
C15_CodecRoundTripOrNull ==
    /\ (encoded # Null /\ decoded # Null /\ decoded.input = encoded.cookie)
          => decoded.output = encoded.payload
    /\ (decoded # Null /\ ~isStateEncoding(decoded.input))
          => decoded.output = Null

\* C16: a callback that succeeds for a github_id without a row adds one row
\* with that github_id, the only one with it, and leaves the other rows as
\* they were; its response carries an access token and a refresh token whose
\* subject is the id of the new row; and a response never carries tokens
\* for an id that is not stored.
C16_NewIdentityAndItsCredentials ==
    /\ [](\A r \in DOMAIN reqs :
             (reqs[r].pc = "done" /\ reqs[r].resp.tokens # Null)
             => /\ reqs[r].writes = 1
                /\ \E row \in users :
                      /\ row.id = reqs[r].resp.tokens.accessToken.sub
                      /\ row.githubId = reqs[r].githubId)
    /\ [][\A r \in DOMAIN reqs :
             (/\ reqs[r].pc = "insert"
              /\ reqs'[r].pc = "done"
              /\ reqs'[r].resp.tokens # Null)
             => \E new \in users' :
                   /\ new \notin users
                   /\ users' = users \cup {new}
                   /\ new.githubId = reqs[r].githubId
                   /\ \A row \in users' :
                         row.githubId = new.githubId => row = new
                   /\ \A row \in users : row.id # new.id
                   /\ reqs'[r].resp.tokens.accessToken.kind = "access"
                   /\ reqs'[r].resp.tokens.refreshToken.kind = "refresh"
                   /\ reqs'[r].resp.tokens.accessToken.sub = new.id
                   /\ reqs'[r].resp.tokens.refreshToken.sub = new.id]_vars

\* A first login of github_id 42 has succeeded: its row is stored next to
\* the row of another user, and the tokens of the response name it
C16_Witness ==
    \E r \in DOMAIN reqs, row \in users :
        /\ reqs[r].pc = "done"
        /\ reqs[r].lookedUp /\ reqs[r].existing = Null
        /\ reqs[r].writes = 1
        /\ row.githubId = reqs[r].githubId
        /\ row.createdAt = reqs[r].now
        /\ reqs[r].resp.tokens # Null
        /\ reqs[r].resp.tokens.accessToken.sub = row.id
        /\ reqs[r].resp.tokens.refreshToken.kind = "refresh"
        /\ Cardinality(users) = 2

\* =================================================== opener and popup
\* The opener window shows GeneratePage with AuthStatus inside it; both
\* listen for "message" and for the session event.  The popup window runs the
\* OAuth callback page with its own module state, over the same localStorage.
MaxAttempts == 1     \* login attempts (popup flows) in one run
MaxWait == 1         \* clock steps while the opener page is shown

AUTH_POPUP_MESSAGE == "ai-gallery:github-auth"
WindowOrigin == "https://gallery"
ForeignOrigin == "https://elsewhere"

AuthMessagePayload(type, status, user, error) ==
    [type |-> type, status |-> status, user |-> user, error |-> error]
MessageEvent(origin, data) == [origin |-> origin, data |-> data]

\* payload.error || "Unable to sign in."
errorText(payload) ==
    IF falsy(payload.error) THEN "Unable to sign in." ELSE payload.error

\* (mutant) the origin of the event is not looked at
trusted_anyOrigin(event) ==
    /\ event.data # Null
    /\ event.data.type = AUTH_POPUP_MESSAGE

\* handleAuthMessage, the two early returns: the event is from this origin
\* and its data is an OAuth message
trusted(event) ==
    /\ event.origin = WindowOrigin
    /\ event.data # Null
    /\ event.data.type = AUTH_POPUP_MESSAGE

\* ref.current && !ref.current.closed
refOpen(ref, w) == ref /\ w.win = "open"

\* window.close() called by the opener
closedByOpener(w) == [w EXCEPT !.win = "closed", !.closedBy = "opener"]

\* The listeners of the session event in the opener window: handleSessionEvent
\* of AuthStatus, and applySession of GeneratePage with the effect that ends
\* the inline login once a user is there (page.tsx, lines 490-495)
sessionEventAuth(a, user) == [a EXCEPT !.user = user]
sessionEventPage(p, user) ==
    [p EXCEPT !.sessionUser = user, !.sessionError = Missing,
              !.sessionLoading = FALSE,
              !.inlineLoginPending = IF user # Null THEN FALSE ELSE @]

\* handleAuthMessage of AuthStatus on a trusted event, without the broadcast
authOnMessage(a, w, payload) ==
    LET closed == [a EXCEPT !.popupRef = IF refOpen(a.popupRef, w) THEN FALSE ELSE @,
                            !.loginPending = FALSE]
    IN IF payload.status = "success"
       THEN IF payload.user # Null
            THEN [closed EXCEPT !.error = Missing, !.user = payload.user,
                                !.loading = FALSE]
            ELSE [closed EXCEPT !.error = Missing]
       ELSE [closed EXCEPT !.error = errorText(payload)]

\* handleAuthMessage of GeneratePage on a trusted event
pageOnMessage(p, w, payload) ==
    [p EXCEPT !.inlinePopupRef = IF refOpen(p.inlinePopupRef, w) THEN FALSE ELSE @,
              !.inlineLoginPending = FALSE,
              !.sessionError = IF payload.status = "error"
                               THEN errorText(payload) ELSE Missing]

\* A new popup flow: window.open(authorizeUrl, "ai-gallery-github")
OpenedPopup ==
    [win |-> "open", pc |-> "authorizing", closedBy |-> "nobody",
     cache |-> Null, received |-> Null, posted |-> "none",
     attempt |-> popup.attempt + 1, sub |-> Missing, forced |-> 0]

MayOpen ==
    /\ ~auth.left
    /\ ~Draining
    /\ popup.pc \in {"idle", "done"}
    /\ popup.attempt < MaxAttempts

\* handleLogin of AuthStatus.  opened: window.open returned a window; if not,
\* the opener itself navigates to the provider and leaves the page.
HandleLogin(opened) ==
    /\ UNCHANGED <<serverVars, clientVars>>
    /\ MayOpen
    /\ IF opened
       THEN /\ auth' = [auth EXCEPT !.error = Missing, !.loginPending = TRUE,
                                    !.popupRef = TRUE]
            /\ popup' = OpenedPopup
       ELSE /\ auth' = [auth EXCEPT !.error = Missing, !.loginPending = FALSE,
                                    !.left = TRUE]
            /\ UNCHANGED popup
    /\ UNCHANGED <<page, inbox, lastMessage>>

\* handleInlineLogin of GeneratePage
HandleInlineLogin(opened) ==
    /\ UNCHANGED <<serverVars, clientVars>>
    /\ MayOpen
    /\ IF opened
       THEN /\ page' = [page EXCEPT !.sessionError = Missing,
                                    !.inlineLoginPending = TRUE,
                                    !.inlinePopupRef = TRUE]
            /\ popup' = OpenedPopup
            /\ UNCHANGED auth
       ELSE /\ page' = [page EXCEPT !.sessionError = Missing,
                                    !.inlineLoginPending = FALSE]
            /\ auth' = [auth EXCEPT !.left = TRUE]
            /\ UNCHANGED popup
    /\ UNCHANGED <<inbox, lastMessage>>

\* notifyOpener(payload): window.opener?.postMessage(payload, origin)
notifyOpener(queue, payload) ==
    Append(queue, MessageEvent(WindowOrigin, payload))

PopupRuns == popup.win = "open"

PostError(w, reason) ==
    /\ popup' = [w EXCEPT !.pc = "done", !.posted = "error"]
    /\ inbox' = notifyOpener(inbox,
                    AuthMessagePayload(AUTH_POPUP_MESSAGE, "error", Null, reason))

\* The popup's memory: localStorage shared with the opener, userCache its own
PopupMem == [tok |-> tokenStore, usr |-> userStore, cache |-> popup.cache]

SetPopupMem(m) ==
    /\ tokenStore' = m.tok
    /\ userStore' = m.usr

\* The provider sent the popup back to the callback page.  kind: "denied"
\* with an error parameter, "nocode" without a code, "code" with a code for
\* user u, which the page posts to POST /auth/github/token.
PopupReturn(kind, u) ==
    /\ UNCHANGED <<serverVars, clientVars>>
    /\ PopupRuns
    /\ popup.pc = "authorizing"
    /\ CASE kind = "denied" -> PostError(popup, "access_denied")
         [] kind = "nocode" -> PostError(popup, "Missing OAuth code.")
         [] kind = "code" ->
              /\ popup' = [popup EXCEPT !.pc = "exchanging", !.sub = u]
              /\ UNCHANGED inbox
    /\ UNCHANGED <<auth, page, lastMessage>>

\* POST /auth/github/token answers.  ok: the payload is persisted and
\* fetchCurrentUser() sends GET /users/me with the new access credential.
PopupExchangeRespond(ok, accessTtl, refreshTtl, withUser) ==
    /\ UNCHANGED serverVars
    /\ PopupRuns
    /\ popup.pc = "exchanging"
    /\ IF ok
       THEN /\ issued < MaxIssued
            /\ LET payload == TokenPayloadDto(popup.sub, issued + 1,
                                  now + accessTtl, now + refreshTtl,
                                  IF withUser THEN SessionUser(popup.sub) ELSE Null)
                   m == persistTokenPayload(PopupMem, payload)
               IN /\ SetPopupMem(m)
                  /\ popup' = [popup EXCEPT !.pc = "profile", !.cache = m.cache,
                                            !.received = payload]
            /\ issued' = issued + 1
            /\ UNCHANGED inbox
       ELSE /\ PostError(popup, "Token exchange failed.")
            /\ UNCHANGED <<tokenStore, userStore, issued>>
    /\ UNCHANGED <<now, userCache, refreshPromise, profilePromise, callers, postBy>>
    /\ UNCHANGED <<auth, page, lastMessage>>

\* GET /users/me answers the popup's fetchCurrentUser().  "user": the user is
\* saved and the opener is told of the success; "nouser" and "error": null
\* with the cache kept; "unauthorized": a forced refresh once, else cleared.
PopupProfileRespond(kind) ==
    /\ UNCHANGED serverVars
    /\ PopupRuns
    /\ popup.pc = "profile"
    /\ CASE kind = "user" ->
              LET user == SessionUser(popup.sub)
                  m == saveSessionUser(PopupMem, user)
              IN /\ SetPopupMem(m)
                 /\ popup' = [popup EXCEPT !.pc = "done", !.cache = m.cache,
                                           !.posted = "success"]
                 /\ inbox' = notifyOpener(inbox,
                        AuthMessagePayload(AUTH_POPUP_MESSAGE, "success", user, Missing))
         [] kind \in {"nouser", "error"} ->
              /\ PostError(popup, "Unable to load the current user profile.")
              /\ UNCHANGED <<tokenStore, userStore>>
         [] kind = "unauthorized" /\ mayRetry(popup)
                 /\ getValidRefreshToken(tokenStore) # Null ->
              /\ popup' = [popup EXCEPT !.pc = "refresh", !.forced = @ + 1]
              /\ UNCHANGED <<tokenStore, userStore, inbox>>
         [] kind = "unauthorized" /\ ~(mayRetry(popup)
                 /\ getValidRefreshToken(tokenStore) # Null) ->
              LET m == clearStoredSession(PopupMem)
              IN /\ SetPopupMem(m)
                 /\ PostError([popup EXCEPT !.cache = m.cache],
                              "Unable to load the current user profile.")
    /\ UNCHANGED <<now, userCache, refreshPromise, profilePromise, callers,
                   issued, postBy>>
    /\ UNCHANGED <<auth, page, lastMessage>>

\* POST /auth/token answers the popup's forced refresh
PopupRefreshRespond(ok, accessTtl, refreshTtl, withUser) ==
    /\ UNCHANGED serverVars
    /\ PopupRuns
    /\ popup.pc = "refresh"
    /\ IF ok
       THEN /\ issued < MaxIssued
            /\ LET payload == TokenPayloadDto(popup.sub, issued + 1,
                                  now + accessTtl, now + refreshTtl,
                                  IF withUser THEN SessionUser(popup.sub) ELSE Null)
                   m == persistTokenPayload(PopupMem, payload)
               IN /\ SetPopupMem(m)
                  /\ popup' = [popup EXCEPT !.pc = "profile", !.cache = m.cache,
                                            !.received = payload]
            /\ issued' = issued + 1
            /\ UNCHANGED inbox
       ELSE /\ LET m == clearStoredSession(PopupMem)
               IN /\ SetPopupMem(m)
                  /\ PostError([popup EXCEPT !.cache = m.cache],
                               "Unable to load the current user profile.")
            /\ UNCHANGED issued
    /\ UNCHANGED <<now, userCache, refreshPromise, profilePromise, callers, postBy>>
    /\ UNCHANGED <<auth, page, lastMessage>>

\* The popup closes itself after a success, or its user closes it
PopupCloses(by) ==
    /\ UNCHANGED <<serverVars, clientVars>>
    /\ PopupRuns
    /\ by = "self" => popup.posted = "success"
    /\ popup' = [popup EXCEPT !.win = "closed", !.closedBy = by]
    /\ UNCHANGED <<auth, page, inbox, lastMessage>>

\* Another window posts to the opener, or a same-origin script posts data
\* that is no OAuth message
UntrustedEvents ==
    {MessageEvent(ForeignOrigin,
        AuthMessagePayload(AUTH_POPUP_MESSAGE, "success", SessionUser("u2"), Missing)),
     MessageEvent(WindowOrigin,
        AuthMessagePayload("other", "success", SessionUser("u2"), Missing)),
     MessageEvent(WindowOrigin, Null)}

PostMessage(event) ==
    /\ UNCHANGED <<serverVars, clientVars>>
    /\ ~auth.left
    /\ Len(inbox) < MaxInbox
    /\ inbox' = Append(inbox, event)
    /\ UNCHANGED <<auth, page, popup, lastMessage>>

\* The "message" event is dispatched in the opener: handleAuthMessage of
\* AuthStatus runs, with the session listeners inside broadcastSession, then
\* handleAuthMessage of GeneratePage
HandleAuthMessage ==
    /\ UNCHANGED <<serverVars, clientVars>>
    /\ ~auth.left
    /\ ~Draining
    /\ inbox # <<>>
    /\ LET event == Head(inbox)
           payload == event.data
       IN IF ~trusted(event)
          THEN UNCHANGED <<auth, page, popup>>
          ELSE LET w1 == IF refOpen(auth.popupRef, popup)
                         THEN closedByOpener(popup) ELSE popup
                   a1 == authOnMessage(auth, popup, payload)
                   told == payload.status = "success" /\ payload.user # Null
                   p1 == IF told THEN sessionEventPage(page, payload.user) ELSE page
                   w2 == IF refOpen(p1.inlinePopupRef, w1)
                         THEN closedByOpener(w1) ELSE w1
               IN /\ auth' = IF told THEN sessionEventAuth(a1, payload.user) ELSE a1
                  /\ page' = pageOnMessage(p1, w1, payload)
                  /\ popup' = w2
    /\ lastMessage' = IF trusted(Head(inbox)) THEN lastMessage ELSE Head(inbox)
    /\ inbox' = Tail(inbox)

\* handleLogout of AuthStatus
HandleLogout ==
    /\ UNCHANGED serverVars
    /\ ~auth.left
    /\ ~Draining
    /\ SetMem(clearStoredSession(Mem))
    /\ auth' = sessionEventAuth([auth EXCEPT !.error = Missing], Null)
    /\ page' = sessionEventPage(page, Null)
    /\ UNCHANGED <<now, refreshPromise, profilePromise, callers, issued, postBy>>
    /\ UNCHANGED <<popup, inbox, lastMessage>>

\* The opener page asks for an access credential before a request of its own
PageGetValidAccessToken ==
    /\ ~auth.left
    /\ GetValidAccessToken(1)

\* Time passes while the opener page is shown
PageTick ==
    /\ now < MaxWait * TOKEN_SKEW_MS
    /\ Tick

OpenerNext ==
    \/ \E opened \in BOOLEAN : HandleLogin(opened)
    \/ \E opened \in BOOLEAN : HandleInlineLogin(opened)
    \/ \E kind \in {"denied", "nocode", "code"}, u \in {"u1"} : PopupReturn(kind, u)
    \/ \E ok, withUser \in BOOLEAN, a \in AccessTtls, r \in RefreshTtls :
           PopupExchangeRespond(ok, a, r, withUser)
    \/ \E kind \in ProfileKinds : PopupProfileRespond(kind)
    \/ \E ok, withUser \in BOOLEAN, a \in AccessTtls, r \in RefreshTtls :
           PopupRefreshRespond(ok, a, r, withUser)
    \/ \E by \in {"self", "user"} : PopupCloses(by)
    \/ \E event \in UntrustedEvents : PostMessage(event)
    \/ HandleAuthMessage
    \/ HandleLogout

SpecOpener == Init /\ [][OpenerNext]_vars

\* The opener window with the requests of its own pages as well
SessionNext ==
    \/ OpenerNext
    \/ PageGetValidAccessToken
    \/ \E kind \in RefreshKinds, a \in AccessTtls, r \in RefreshTtls,
          withUser \in BOOLEAN : RefreshRespond(kind, a, r, withUser)
    \/ RefreshCatch
    \/ RefreshFinally
    \/ PageTick

SpecSession == Init /\ [][SessionNext]_vars

\* ------------------------------------------------------------ claims
\* An event posted from the opener's own origin whose data is an OAuth message
isOAuthMessage(event) ==
    /\ event.origin = WindowOrigin
    /\ event.data # Null
    /\ event.data.type = AUTH_POPUP_MESSAGE

\* The step handles the message event at the head of the opener's queue
Handled == inbox # <<>> /\ inbox' = Tail(inbox)

\* C17: a message event whose origin is not the opener's own, or whose data
\* is no OAuth message, changes nothing in the opener: the user shown, the
\* error, the login-pending flags, the popup references and the credential
\* cache stay as they were, and the popup is not closed.
C17_ForeignMessagesIgnored ==
    [][(Handled /\ ~isOAuthMessage(Head(inbox)))
          => UNCHANGED <<auth, page, popup, tokenStore, userStore, userCache>>]_vars

\* A forged success from another origin was handled while the login was
\* pending: nobody is signed in, the login is still pending, the popup open
C17_Witness ==
    /\ lastMessage # Null
    /\ lastMessage.origin = ForeignOrigin
    /\ lastMessage.data.status = "success"
    /\ auth.loginPending
    /\ auth.popupRef
    /\ popup.win = "open"
    /\ auth.user = Null

\* The token item of localStorage is the payload the popup's login attempt
\* received from the API server
HoldsAttemptCredentials ==
    /\ popup.received # Null
    /\ tokenStore # Null
    /\ tokenStore.accessToken = popup.received.accessToken
    /\ tokenStore.refreshToken = popup.received.refreshToken

\* C18: when the popup has posted a message of status "error", the
\* credential cache holds nothing the login attempt wrote, and the opener,
\* handling that message, shows the reason the message carries.
C18_ErrorLeavesNoCredentials ==
    /\ [](popup.posted = "error" => ~HoldsAttemptCredentials)
    /\ [][(Handled /\ isOAuthMessage(Head(inbox))
              /\ Head(inbox).data.status = "error")
            => auth'.error = Head(inbox).data.error]_vars

\* C19: handling a same-origin OAuth message of status "error", the opener
\* does not close the popup and keeps its references to it; the opener
\* closes the popup only when it handles a message of status "success".
C19_PopupKeptOnError ==
    [][/\ (Handled /\ isOAuthMessage(Head(inbox))
              /\ Head(inbox).data.status = "error")
          => /\ popup'.win = popup.win
             /\ auth'.popupRef = auth.popupRef
             /\ page'.inlinePopupRef = page.inlinePopupRef
       /\ (popup.win = "open" /\ popup'.win = "closed"
              /\ popup'.closedBy = "opener")
          => /\ Handled
             /\ isOAuthMessage(Head(inbox))
             /\ Head(inbox).data.status = "success"]_vars

\* getStoredSessionUser() of the opener window once the step has been taken
cachedUserAfter ==
    getStoredSessionUser([tok |-> tokenStore', usr |-> userStore',
                          cache |-> userCache'])

\* The step is code of the opener window changing the cached session
LocalMutation ==
    /\ <<tokenStore, userStore, userCache>>' # <<tokenStore, userStore, userCache>>
    /\ popup' = popup

\* C20: every mutation of the cached session made in the opener window
\* (login, a successful refresh, a failed refresh that clears, logout) emits
\* the session event in that window: when the mutation has completed, the
\* value its subscribers received last is the cached user.
C20_MutationsAreBroadcast ==
    [][LocalMutation => /\ auth'.user = cachedUserAfter
                        /\ page'.sessionUser = cachedUserAfter]_vars

\* ------------------------------------------------ opener: liveness
\* What the browser and the network do sooner or later: a queued message
\* event is dispatched, and a request of the popup is answered.  What the
\* user does (login, logout, closing the popup) is left to the user.
OpenerFairness ==
    /\ WF_vars(HandleAuthMessage)
    /\ WF_vars(\E ok, withUser \in BOOLEAN, a \in AccessTtls, r \in RefreshTtls :
                  PopupExchangeRespond(ok, a, r, withUser))
    /\ WF_vars(\E kind \in ProfileKinds : PopupProfileRespond(kind))
    /\ WF_vars(\E ok, withUser \in BOOLEAN, a \in AccessTtls, r \in RefreshTtls :
                  PopupRefreshRespond(ok, a, r, withUser))

SpecOpenerLive == SpecOpener /\ OpenerFairness

\* The user closed the popup and its page never posted a message
Abandoned ==
    /\ popup.win = "closed"
    /\ popup.closedBy = "user"
    /\ popup.posted = "none"

\* C21: when the user closes the popup without any message having been
\* posted, the opener eventually leaves its awaiting-result state: the
\* login-pending flags are false and an outcome is shown as the error.
C21_AbandonedPopupEnds ==
    (Abandoned /\ (auth.loginPending \/ page.inlineLoginPending))
       ~> (/\ ~auth.loginPending
           /\ ~page.inlineLoginPending
           /\ (auth.error # Missing \/ page.sessionError # Missing))

\* ------------------------------------------------ claims, client (2)
\* The refresh in flight settles in this step
RefreshSettles == refreshPromise.st = "returned" /\ refreshPromise'.st = "none"

\* C22: getValidAccessToken() never rejects.  Whatever the refresh request
\* ended with (a non-OK status, an exception, a malformed body), every
\* getValidAccessToken() call waiting for it resolves, to a credential or to
\* null; and when it resolves to null after a refresh that failed, nothing
\* of the session can be read from the cache any more.
C22_NeverRejectsAndClears ==
    [][RefreshSettles =>
         \A c \in DOMAIN callers :
            (callers[c].pc = "waitRefresh" /\ callers[c].op = "getValidAccessToken")
            => /\ callers'[c].pc = "done"
               /\ (callers'[c].result = Null /\ refreshPromise.answer # "ok")
                  => /\ readStoredTokens(tokenStore') = Null
                     /\ userStore' = Null
                     /\ userCache' = Null]_vars

\* Caller c calls getValidAccessToken() in this step
CallsGetValidAccessToken(c) ==
    /\ callers[c].pc = "idle"
    /\ callers'[c].pc # "idle"
    /\ callers'[c].op = "getValidAccessToken"

\* A credential pair is cached and now < accessExpiresAt - 5 s
FreshAccess ==
    /\ tokenStore # Null
    /\ tokenStore.accessToken # Null
    /\ tokenStore.refreshToken # Null
    /\ tokenStore.accessTokenExpireIn > 0
    /\ now < tokenStore.accessTokenExpireIn - 5000

\* C23: the fast path.  A getValidAccessToken() call that finds a cached
\* access credential with now < accessExpiresAt - 5 s returns that
\* credential at once, sends no request, creates no refresh in flight and
\* leaves storage and the mirror alone; a call that finds
\* now >= accessExpiresAt - 5 s does not return the cached credential.
C23_FastPath ==
    [][\A c \in DOMAIN callers :
          CallsGetValidAccessToken(c) =>
             IF FreshAccess
             THEN /\ callers'[c].pc = "done"
                  /\ callers'[c].result = tokenStore.accessToken
                  /\ UNCHANGED <<tokenStore, userStore, userCache,
                                 refreshPromise, postBy>>
             ELSE \/ callers'[c].pc # "done"
                  \/ callers'[c].result = Null]_vars

\* One call returned the cached credential without a refresh; a call made
\* when that credential was within the skew of its expiry went through a
\* refresh and returned a newer one
C23_Witness ==
    \E c, d \in DOMAIN callers :
        /\ callers[c].pc = "done" /\ callers[d].pc = "done"
        /\ callers[c].op = "getValidAccessToken"
        /\ callers[d].op = "getValidAccessToken"
        /\ callers[c].sent = Null
        /\ callers[c].result # Null
        /\ callers[d].sent # Null
        /\ callers[d].result # Null
        /\ callers[d].result.gen > callers[c].result.gen
        /\ Len(postBy) = 1

\* A POST /auth/token request is started in this step
PostStarts == Len(postBy') > Len(postBy)

\* C24: an expired refresh credential is never sent.  A POST /auth/token
\* request starts only when a refresh credential is cached with
\* now < refreshExpiresAt, no skew allowed, and it carries that credential;
\* an expiry that is missing, zero or not a number counts as expired.
C24_ExpiredRefreshNeverSent ==
    [][PostStarts =>
          /\ tokenStore # Null
          /\ tokenStore.refreshToken # Null
          /\ tokenStore.refreshTokenExpireIn > 0
          /\ now < tokenStore.refreshTokenExpireIn
          /\ refreshPromise'.sent = tokenStore.refreshToken]_vars

\* refreshTokens() found a refresh credential whose expiry is not a number
\* and returned null without any request
C24_Witness ==
    \E c \in DOMAIN callers :
        /\ callers[c].pc = "done"
        /\ callers[c].op = "refreshTokens"
        /\ callers[c].result = Null
        /\ callers[c].sent = Null
        /\ tokenStore # Null
        /\ tokenStore.refreshToken # Null
        /\ tokenStore.refreshTokenExpireIn = NaN
        /\ postBy = <<>>

\* A refresh request has been sent and its promise has not settled yet
InFlight == refreshPromise.st \in {"fetch", "thrown", "returned"}

\* Caller c calls refreshTokens() in this step
CallsRefreshTokens(c) ==
    /\ callers[c].pc = "idle"
    /\ callers'[c].pc # "idle"
    /\ callers'[c].op = "refreshTokens"

\* A refresh credential is cached and now < refreshExpiresAt
ValidRefresh ==
    /\ tokenStore # Null
    /\ tokenStore.accessToken # Null
    /\ tokenStore.refreshToken # Null
    /\ tokenStore.refreshTokenExpireIn > 0
    /\ now < tokenStore.refreshTokenExpireIn

\* C25: only the refresh in flight is shared.  When a refresh settles and
\* its callers resume, whatever its outcome, the in-flight marker is reset;
\* a refreshTokens() call made with no refresh in flight and a valid refresh
\* credential starts a new request with that credential and waits for it,
\* it is never answered from an earlier refresh.
C25_OnlyInFlightShared ==
    [][/\ (\E c \in DOMAIN callers :
              callers[c].pc = "waitRefresh" /\ callers'[c].pc = "done")
          => refreshPromise' = NoRefresh
       /\ \A c \in DOMAIN callers :
             (CallsRefreshTokens(c) /\ ~InFlight /\ ValidRefresh)
             => /\ PostStarts
                /\ callers'[c].pc = "waitRefresh"
                /\ callers'[c].sent = tokenStore.refreshToken
                /\ refreshPromise'.st = "fetch"]_vars

\* A refresh failed and its caller got null; after a new login a later
\* refreshTokens() call started a second request
C25_Witness ==
    \E c, d \in DOMAIN callers :
        /\ callers[c].pc = "done"
        /\ callers[c].sent # Null
        /\ callers[c].result = Null
        /\ callers[d].pc = "waitRefresh"
        /\ callers[d].op = "refreshTokens"
        /\ callers[d].sent.gen > callers[c].sent.gen
        /\ Len(postBy) = 2
        /\ refreshPromise.st = "fetch"

\* Request r's insert is run in this step, for a github_id no row has
InsertsUnknownId(r) ==
    /\ reqs[r].pc = "insert"
    /\ reqs'[r].pc = "done"
    /\ \A row \in users : row.githubId # reqs[r].githubId

\* C26: the identity is looked up by providerId only, never by email.  A
\* login whose providerId no identity has creates a new identity, also when
\* another identity has the same email, and gets credentials for the new
\* identity; the other identities are left as they are.
C26_LookupByProviderIdOnly ==
    [][\A r \in DOMAIN reqs :
          InsertsUnknownId(r) =>
             /\ \E row \in users' \ users :
                   /\ row.githubId = reqs[r].githubId
                   /\ reqs'[r].resp.tokens # Null
                   /\ reqs'[r].resp.tokens.accessToken.sub = row.id
             /\ users \subseteq users']_vars

\* The answer to the refresh request, or to the profile request, arrives in
\* this step
RefreshAnswered == refreshPromise.st = "fetch" /\ refreshPromise'.st # "fetch"
ProfileAnswered == profilePromise.st = "req" /\ profilePromise' # profilePromise

\* C27: logout is final with respect to work in flight.  A refresh starts
\* with a credential pair in the cache, a profile fetch with an access
\* credential; when the cache has been cleared while the request was in
\* flight, the answer to that request leaves the cache without a token
\* payload and without a user, in storage and in the mirror.
C27_LogoutIsFinal ==
    [][((RefreshAnswered \/ ProfileAnswered) /\ Cleared)
          => /\ tokenStore' = Null
             /\ userStore' = Null
             /\ userCache' = Null]_vars

\* Caller c calls fetchCurrentUser() in this step
CallsFetchCurrentUser(c) ==
    /\ callers[c].pc = "idle"
    /\ callers'[c].pc # "idle"
    /\ callers'[c].op = "fetchCurrentUser"

\* A profile operation has started and has not settled
ProfileRunning == profilePromise.st \in {"req", "awaitRefresh", "resume"}

\* C28: fetchCurrentUser() is single-flight.  A call made while a profile
\* operation runs joins it: it sends nothing and starts nothing.  An
\* operation sends two profile requests at most.  When it settles, every
\* caller that joined it gets the one result and the marker is reset; a call
\* made after that, with a good access credential, starts a new operation
\* with a request of its own.
C28_ProfileSingleFlight ==
    /\ [](profilePromise.reqs <= 2)
    /\ [][\A c \in DOMAIN callers :
             CallsFetchCurrentUser(c) =>
                IF ProfileRunning
                THEN /\ callers'[c].pc = "waitProfile"
                     /\ UNCHANGED <<profilePromise, refreshPromise, postBy>>
                ELSE FreshAccess =>
                        /\ profilePromise'.st = "req"
                        /\ profilePromise'.reqs = 1
                        /\ profilePromise'.token = tokenStore.accessToken]_vars
    /\ [][\A c, d \in DOMAIN callers :
             (/\ callers[c].pc = "waitProfile" /\ callers'[c].pc = "done"
              /\ callers[d].pc = "waitProfile")
             => /\ callers'[d].pc = "done"
                /\ callers'[d].result = callers'[c].result
                /\ profilePromise' = NoProfile]_vars

\* Two calls shared one operation, which sent two requests (the second after
\* a forced refresh), and both got its user
C28_Witness ==
    \E c, d \in DOMAIN callers :
        /\ c # d
        /\ callers[c].pc = "done" /\ callers[d].pc = "done"
        /\ callers[c].op = "fetchCurrentUser"
        /\ callers[d].op = "fetchCurrentUser"
        /\ callers[c].reqs = 2 /\ callers[d].reqs = 2
        /\ callers[c].result # Null
        /\ callers[d].result = callers[c].result
        /\ profilePromise = NoProfile

\* C29: a failure of the profile request that is no authorization failure
\* (a non-OK status other than 401 and 403, a network exception) makes
\* fetchCurrentUser() resolve to null for every caller, with the token
\* payload and the user in the cache as they were and no refresh started;
\* an answer to the profile request empties the cache only when it is an
\* unauthorized one, and the resumed body only when the refresh it awaited
\* gave no access credential.
C29_NonAuthFailureKeepsSession ==
    /\ [][ProfileRespond("error")
             => /\ UNCHANGED <<tokenStore, userStore, userCache,
                               refreshPromise, postBy>>
                /\ profilePromise' = NoProfile
                /\ \A c \in DOMAIN callers :
                      callers[c].pc = "waitProfile" =>
                         /\ callers'[c].pc = "done"
                         /\ callers'[c].result = Null]_vars
    /\ [][\A kind \in ProfileKinds :
             (ProfileRespond(kind) /\ ~Cleared /\ tokenStore' = Null)
             => kind = "unauthorized"]_vars
    /\ [][(ProfileResume /\ ~Cleared /\ tokenStore' = Null)
             => accessTokenOf(profilePromise.got) = Null]_vars

\* fetchCurrentUser() sent one request and resolved to null, and the cached
\* pair and the cached user are still there
C29_Witness ==
    \E c \in DOMAIN callers :
        /\ callers[c].pc = "done"
        /\ callers[c].op = "fetchCurrentUser"
        /\ callers[c].result = Null
        /\ callers[c].reqs = 1
        /\ FreshAccess
        /\ userStore # Null
        /\ userCache = userStore
        /\ postBy = <<>>

\* C30: in one tab, whatever saveSessionUser, persistTokenPayload,
\* clearStoredSession and getStoredSessionUser have done so far, the user in
\* the in-memory mirror is null or the user held in storage, and what
\* getStoredSessionUser() returns is null or the user held in storage.
C30_MirrorConsistent ==
    /\ userCache # Null => userCache = userStore
    /\ getStoredSessionUser(Mem) # Null => getStoredSessionUser(Mem) = userStore

\* a refresh has stored a second pair and its user, and the mirror holds
\* that user
C30_Witness ==
    /\ issued > 1
    /\ userCache # Null
    /\ userCache = userStore
    /\ tokenStore # Null
    /\ refreshPromise = NoRefresh

====
